---- MODULE Spec2Model ----
(***************************************************************************)
(* State-machine model of src/src/prediction/predictor_model.py: the CNN   *)
(* time-series Forecaster (windowing, training loop with early stopping,   *)
(* predict / evaluate, save / load).                                       *)
(*                                                                         *)
(* Numeric tensors are not computed.  A network output is the symbolic     *)
(* term [wts, activation, window]: the weights and the input that produced *)
(* it.  Weights are [init, steps]: which random initialisation they come   *)
(* from and how many optimizer steps were applied to it.  Shapes, slices,  *)
(* modes, counters and control flow are modelled as the code computes      *)
(* them.                                                                   *)
(***************************************************************************)
EXTENDS Integers, Sequences, FiniteSets, TLC

VARIABLES
    self,           \* the Forecaster under study (hyperparameters, net, optimizer)
    loaded,         \* the Forecaster returned by the last Forecaster.load
    disk,           \* the two files save() writes under model_path
    saved_self,     \* history variable: self as it was when save() was last called
    result,         \* outcome of the last finished call
    data,           \* the array handed to _get_X_and_y (windowing specification)
    pc,             \* "idle", or "training" while _run_training's loop runs
    epoch,          \* _run_training locals ...
    best_loss,
    trigger_times,
    losses,
    patience,
    max_epochs,
    train_loader,
    valid_loader

locals == <<epoch, best_loss, trigger_times, losses, patience, max_epochs,
            train_loader, valid_loader>>
store  == <<disk, saved_self, loaded>>
vars   == <<self, loaded, disk, saved_self, result, data, pc, epoch, best_loss,
            trigger_times, losses, patience, max_epochs, train_loader,
            valid_loader>>

-----------------------------------------------------------------------------
(* Bounds of the model *)

MaxEpochs == 12      \* largest max_epochs handed to _run_training directly
MaxPatience == 2     \* patience values tried: -1 .. MaxPatience
MaxFitSteps == 2     \* epochs one Forecaster is trained for in the lifecycle
MaxLifeT == 3        \* longest time axis of an array handed to fit / predict / evaluate
MaxLen == 2          \* largest encode_len / decode_len
MaxT == 4            \* longest time axis of an input array
MaxN == 2            \* most series instances in an input array
MaxFeat == 2         \* largest feature dimension

(* Program constants *)

BestLossInit == 10000000   \* best_loss = 1e7
min_epochs == 10
batch_size == 64
dim3 == 25
Unbound == -1              \* trigger_times before its first assignment

Activations == {"relu", "tanh", "none"}
ActivationNames == Activations \cup {"sigmoid"}

\* Per-epoch loss values: two ordinary ones and one that is not below 1e7.
LossValues == {1, 2, BestLossInit}

Min(a, b) == IF a < b THEN a ELSE b
Max(a, b) == IF a > b THEN a ELSE b

-----------------------------------------------------------------------------
(* Arrays: [shape |-> <<N, T, D>>, val |-> val[n][t][d]] *)

NoData == [shape |-> <<0, 0, 0>>, val |-> <<>>]

\* An array whose entries are pairwise different, so that a slice is
\* recognised by its content.
GenArray(N, T, D) ==
    [shape |-> <<N, T, D>>,
     val   |-> [n \in 1..N |-> [t \in 1..T |-> [d \in 1..D |-> 100*n + 10*t + d]]]]

\* Python's normalisation of a slice bound i on an axis of length len.
PyBound(i, len) == IF i < 0 THEN Max(len + i, 0) ELSE Min(i, len)

\* a[:, start:stop, :] on the time axis.
SliceTime(a, start, stop) ==
    LET lo == PyBound(start, a.shape[2])
        hi == PyBound(stop, a.shape[2])
        n  == Max(hi - lo, 0)
    IN [shape |-> <<a.shape[1], n, a.shape[3]>>,
        val   |-> [i \in 1..a.shape[1] |-> [t \in 1..n |-> a.val[i][lo + t]]]]

\* a[:, start:, 0]: feature 0 only, the feature axis dropped.
SliceTimeFeature0(a, start) ==
    LET lo == PyBound(start, a.shape[2])
        n  == Max(a.shape[2] - lo, 0)
    IN [shape |-> <<a.shape[1], n>>,
        val   |-> [i \in 1..a.shape[1] |-> [t \in 1..n |-> a.val[i][lo + t][1]]]]

NoTarget == [shape |-> <<>>, val |-> <<>>]     \* y = None

-----------------------------------------------------------------------------
(* Forecaster._get_X_and_y *)

\* Mutant of TrainCheckFails: only a too short array is rejected.
TrainCheckTooShortOnly(obj, T) == T < obj.encode_len + obj.decode_len

TrainCheckFails(obj, T) == T # obj.encode_len + obj.decode_len

InferCheckFails(obj, T) == T < obj.encode_len

TrainX(obj, a) == SliceTime(a, 0, obj.encode_len)

TrainY(obj, a) == SliceTimeFeature0(a, obj.encode_len)

InferX(obj, a) == SliceTime(a, -obj.encode_len, a.shape[2])

get_X_and_y(obj, a, is_train) ==
    LET T == a.shape[2]
        D == a.shape[3]
    IN IF D # obj.feat_dim
       THEN [status |-> "ValueError", X |-> NoData, y |-> NoTarget, has_y |-> FALSE]
       ELSE IF is_train
       THEN IF TrainCheckFails(obj, T)
            THEN [status |-> "ValueError", X |-> NoData, y |-> NoTarget, has_y |-> FALSE]
            ELSE [status |-> "ok", X |-> TrainX(obj, a), y |-> TrainY(obj, a),
                  has_y |-> TRUE]
       ELSE IF InferCheckFails(obj, T)
            THEN [status |-> "ValueError", X |-> NoData, y |-> NoTarget, has_y |-> FALSE]
            ELSE [status |-> "ok", X |-> InferX(obj, a), y |-> NoTarget,
                  has_y |-> FALSE]

-----------------------------------------------------------------------------
(* Forecaster objects *)

NoObject == [exists |-> FALSE]

\* get_activation raises ValueError for any other name.
get_activation_fails(activation) == activation \notin Activations

\* Net.__init__ and Forecaster.__init__ hold no check of their own: the only
\* failure is get_activation's.
ConstructFails(encode_len, decode_len, feat_dim, activation) ==
    get_activation_fails(activation)

\* A freshly constructed Forecaster: a Module starts in training mode, its
\* weights are the random initialisation `init`, the optimizer has no state.
NewForecaster(encode_len, decode_len, feat_dim, activation, init) ==
    [exists     |-> TRUE,
     encode_len |-> encode_len,
     decode_len |-> decode_len,
     feat_dim   |-> feat_dim,
     activation |-> activation,
     net        |-> [wts |-> [init |-> init, steps |-> 0], training |-> TRUE],
     optimizer  |-> [steps |-> 0]]

Hyper(obj) ==
    [encode_len |-> obj.encode_len, decode_len |-> obj.decode_len,
     feat_dim |-> obj.feat_dim, activation |-> obj.activation]

-----------------------------------------------------------------------------
(* Net.forward *)

\* Time steps left by x[:, -decode_len:, :] on a sequence of L steps (the
\* three convolutions pad "same" and keep L).
ForwardSteps(obj, L) == L - PyBound(-obj.decode_len, L)

\* Flatten gives dim3 * steps features; fc expects dim3 * decode_len.
ForwardShapeOK(obj, L) == dim3 * ForwardSteps(obj, L) = dim3 * obj.decode_len

\* The network applied to X of shape (N, L, D), L >= 1: one row of decode_len
\* values per instance, determined by the weights, the activation and the
\* instance's whole window.  The mode (train / eval) does not enter: the
\* network has no dropout and no normalisation layer.
NetForward(obj, X) ==
    IF ~ForwardShapeOK(obj, X.shape[2])
    THEN [status |-> "RuntimeError"]
    ELSE [status |-> "ok",
          out |-> [shape |-> <<X.shape[1], obj.decode_len>>,
                   val   |-> [n \in 1..X.shape[1] |->
                                [wts        |-> obj.net.wts,
                                 activation |-> obj.activation,
                                 window     |-> X.val[n]]]]]

-----------------------------------------------------------------------------
(* Training *)

RECURSIVE CeilLog15(_, _, _, _)
\* The least k with 1.5^k >= N, from pow3 = 3^k and pow2 = 2^k.
CeilLog15(N, k, pow3, pow2) ==
    IF pow3 >= N * pow2 THEN k ELSE CeilLog15(N, k + 1, 3 * pow3, 2 * pow2)

\* int(37 - log_1.5(N)) for N >= 100 (no power of 1.5 is an integer, so the
\* floor of 37 - x is 37 - ceil(x)); within the integer range for N <= 1000.
get_patience_factor(N) ==
    IF N < 100 THEN 30 ELSE 37 - CeilLog15(N, 0, 1, 1)

NumBatches(N, size) == (N + size - 1) \div size

NoLoader == [present |-> FALSE, batches |-> 0]
Loader(N) == [present |-> TRUE, batches |-> NumBatches(N, batch_size)]

\* net.train(), then one optimizer step per mini-batch.
TrainEpoch(obj, batches) ==
    [obj EXCEPT !.net.training = TRUE,
                !.net.wts.steps = @ + batches,
                !.optimizer.steps = @ + batches]

\* Mutant of get_loss_model: the evaluation pass also takes an optimizer step.
get_loss_model_stepping(obj) ==
    [obj EXCEPT !.net.training = FALSE,
                !.net.wts.steps = @ + 1,
                !.optimizer.steps = @ + 1]

\* get_loss: model.eval(), forward passes under torch.no_grad().
get_loss_model(obj) == [obj EXCEPT !.net.training = FALSE]

\* Mutant of AppendLoss: the record holds the 1-based epoch number.
AppendLossOneBased(hist, ep, current_loss) ==
    Append(hist, [epoch |-> ep + 1, loss |-> current_loss])

\* losses.append({"epoch": epoch, "loss": current_loss})
AppendLoss(hist, ep, current_loss) ==
    Append(hist, [epoch |-> ep, loss |-> current_loss])

\* current_loss < best_loss
Improved(current_loss, best) == current_loss < best

\* Mutant of StopCondition: the minimum-epoch floor is dropped.
StopConditionNoFloor(triggers, pat, ep) == triggers >= pat

\* trigger_times >= patience and epoch >= min_epochs
StopCondition(triggers, pat, ep) == triggers >= pat /\ ep >= min_epochs

NoResult == [op |-> "none", status |-> "none"]

Returned(exit, hist) ==
    [op |-> "fit", status |-> "returned", exit |-> exit, losses |-> hist]

\* _run_training up to its loop: the locals are set; with max_epochs = 0
\* the loop body never runs and the empty list is returned.
RunTrainingStart(tl, vl, me, pat) ==
    /\ train_loader' = tl
    /\ valid_loader' = vl
    /\ max_epochs' = me
    /\ patience' = pat
    /\ best_loss' = BestLossInit
    /\ losses' = <<>>
    /\ trigger_times' = Unbound
    /\ epoch' = 0
    /\ IF me > 0
       THEN pc' = "training" /\ result' = NoResult
       ELSE pc' = "idle" /\ result' = Returned("max_epochs", <<>>)

\* The end of one loop iteration that did not return: the next epoch, or the
\* loop's normal end and `return losses`.
NextEpochOrReturn(hist) ==
    IF epoch + 1 < max_epochs
    THEN epoch' = epoch + 1 /\ pc' = "training" /\ UNCHANGED result
    ELSE epoch' = epoch /\ pc' = "idle" /\ result' = Returned("max_epochs", hist)

\* One iteration of `for epoch in range(max_epochs)`, use_early_stopping=True.
Epoch ==
    /\ pc = "training"
    /\ epoch < max_epochs
    /\ UNCHANGED <<store, data, patience, max_epochs, train_loader, valid_loader>>
    /\ IF ~ForwardShapeOK(self, self.encode_len)
       THEN \* self.net(X) raises in the first batch, after net.train()
            /\ self' = [self EXCEPT !.net.training = TRUE]
            /\ pc' = "idle"
            /\ result' = [op |-> "fit", status |-> "RuntimeError"]
            /\ UNCHANGED <<epoch, best_loss, trigger_times, losses>>
       ELSE \E current_loss \in LossValues :
            LET trained == TrainEpoch(self, train_loader.batches)
                hist == AppendLoss(losses, epoch, current_loss)
            IN /\ self' = IF valid_loader.present
                          THEN get_loss_model(trained) ELSE trained
               /\ losses' = hist
               /\ IF Improved(current_loss, best_loss)
                  THEN /\ trigger_times' = 0
                       /\ best_loss' = current_loss
                       /\ NextEpochOrReturn(hist)
                  ELSE IF trigger_times = Unbound
                  THEN \* trigger_times += 1 reads an unassigned local
                       /\ pc' = "idle"
                       /\ result' = [op |-> "fit", status |-> "UnboundLocalError"]
                       /\ UNCHANGED <<epoch, best_loss, trigger_times>>
                  ELSE /\ trigger_times' = trigger_times + 1
                       /\ UNCHANGED best_loss
                       /\ IF StopCondition(trigger_times + 1, patience, epoch)
                          THEN /\ epoch' = epoch
                               /\ pc' = "idle"
                               /\ result' = Returned("early_stop", hist)
                          ELSE NextEpochOrReturn(hist)

-----------------------------------------------------------------------------
(* Specification of the training loop: _run_training called directly on a  *)
(* constructed Forecaster, with any patience and per-epoch losses.         *)

PatienceValues == -1 .. MaxPatience

RunTraining ==
    /\ pc = "idle"
    /\ \E pat \in PatienceValues, me \in {0, MaxEpochs} :
         /\ self.optimizer.steps + me <= MaxEpochs
         /\ RunTrainingStart(Loader(1), NoLoader, me, pat)
    /\ UNCHANGED <<self, store, data>>

InitCommon ==
    /\ loaded = NoObject
    /\ disk = [exists |-> FALSE]
    /\ saved_self = NoObject
    /\ result = NoResult
    /\ data = NoData
    /\ pc = "idle"
    /\ epoch = 0
    /\ best_loss = BestLossInit
    /\ trigger_times = Unbound
    /\ losses = <<>>
    /\ patience = 0
    /\ max_epochs = 0
    /\ train_loader = NoLoader
    /\ valid_loader = NoLoader

InitTrain ==
    /\ self = NewForecaster(2, 1, 1, "relu", 1)
    /\ InitCommon

NextTrain == RunTraining \/ Epoch

SpecTrain == InitTrain /\ [][NextTrain]_vars

-----------------------------------------------------------------------------
(* Specification of the windowing function: _get_X_and_y applied to every  *)
(* array shape within the bounds, on every Forecaster configuration        *)
(* (encode_len = 0 included: the constructor accepts it).                  *)

ExtractTrain ==
    /\ result' = [op |-> "get_X_and_y", is_train |-> TRUE, input |-> data,
                  out |-> get_X_and_y(self, data, TRUE)]
    /\ UNCHANGED <<self, store, data, pc, locals>>

ExtractInfer ==
    /\ result' = [op |-> "get_X_and_y", is_train |-> FALSE, input |-> data,
                  out |-> get_X_and_y(self, data, FALSE)]
    /\ UNCHANGED <<self, store, data, pc, locals>>

InitWin ==
    /\ self \in {NewForecaster(e, d, f, "relu", 1) :
                    e \in 0..MaxLen, d \in 1..MaxLen, f \in 1..MaxFeat}
    /\ loaded = NoObject
    /\ disk = [exists |-> FALSE]
    /\ saved_self = NoObject
    /\ result = NoResult
    /\ data \in {GenArray(n, t, d) : n \in 1..MaxN, t \in 0..MaxT, d \in 1..MaxFeat}
    /\ pc = "idle"
    /\ epoch = 0
    /\ best_loss = BestLossInit
    /\ trigger_times = Unbound
    /\ losses = <<>>
    /\ patience = 0
    /\ max_epochs = 0
    /\ train_loader = NoLoader
    /\ valid_loader = NoLoader

NextWin == ExtractTrain \/ ExtractInfer

SpecWin == InitWin /\ [][NextWin]_vars

-----------------------------------------------------------------------------
(* Specification of the lifecycle: one Forecaster is constructed, then fit *)
(* (with or without validation data), predict, evaluate, save and load are *)
(* called in any order, one call at a time.                                *)

\* Arrays of one instance, with the Forecaster's feature dimension (1) or not.
LifeArrays == {GenArray(1, t, d) : t \in 1..MaxLifeT, d \in {1, 2}}

Construct ==
    /\ ~self.exists
    /\ \E e \in 1..MaxLen, d \in 1..MaxLen, act \in ActivationNames :
         IF ConstructFails(e, d, 1, act)
         THEN /\ result' = [op |-> "construct", status |-> "ValueError"]
              /\ UNCHANGED self
         ELSE /\ result' = [op |-> "construct", status |-> "ok"]
              /\ self' = NewForecaster(e, d, 1, act, 1)
    /\ UNCHANGED <<store, data, pc, locals>>

\* fit(train_data, valid_data, max_epochs): windowing of both arrays, the
\* patience from the number of training instances, then _run_training.
FitOn(train_data, has_valid, valid_data, me) ==
    LET tr == get_X_and_y(self, train_data, TRUE)
        va == get_X_and_y(self, valid_data, TRUE)
    IN IF tr.status # "ok" \/ (has_valid /\ va.status # "ok")
       THEN /\ result' = [op |-> "fit", status |-> "ValueError"]
            /\ UNCHANGED <<pc, locals>>
       ELSE RunTrainingStart(Loader(tr.X.shape[1]),
                             IF has_valid THEN Loader(va.X.shape[1]) ELSE NoLoader,
                             me,
                             get_patience_factor(tr.X.shape[1]))

Fit ==
    /\ self.exists
    /\ pc = "idle"
    /\ \E train_data \in LifeArrays, me \in 1..MaxFitSteps :
         /\ self.optimizer.steps + me <= MaxFitSteps
         /\ \/ FitOn(train_data, FALSE, NoData, me)
            \/ \E valid_data \in LifeArrays : FitOn(train_data, TRUE, valid_data, me)
    /\ UNCHANGED <<self, store, data>>

\* predict(data): the window, the network on it (no call of eval(), no
\* torch.no_grad() block), the last decode_len columns, a trailing axis.
\* N <= batch_size here, so the loader yields one batch, in input order.
PredictOf(obj, a) ==
    LET w == get_X_and_y(obj, a, FALSE)
        f == NetForward(obj, w.X)
    IN IF w.status # "ok"
       THEN [op |-> "predict", status |-> "ValueError", input |-> a]
       ELSE IF f.status # "ok"
       THEN [op |-> "predict", status |-> "RuntimeError", input |-> a]
       ELSE [op |-> "predict", status |-> "ok", input |-> a,
             preds |-> [shape |-> <<f.out.shape[1],
                                    f.out.shape[2] - PyBound(-obj.decode_len, f.out.shape[2]),
                                    1>>,
                        val |-> f.out.val],
             fwd_training |-> obj.net.training,
             fwd_no_grad |-> FALSE]

Predict ==
    /\ self.exists
    /\ pc = "idle"
    /\ \E a \in LifeArrays : result' = PredictOf(self, a)
    /\ UNCHANGED <<self, store, data, locals, pc>>

\* evaluate(test_data): the training-mode window, then get_loss.
EvaluateOn(a) ==
    LET w == get_X_and_y(self, a, TRUE)
        evald == get_loss_model(self)
        f == NetForward(evald, w.X)
    IN IF w.status # "ok"
       THEN /\ result' = [op |-> "evaluate", status |-> "ValueError", input |-> a]
            /\ UNCHANGED self
       ELSE /\ self' = evald
            /\ IF f.status # "ok"
               THEN result' = [op |-> "evaluate", status |-> "RuntimeError", input |-> a]
               ELSE result' = [op |-> "evaluate", status |-> "ok", input |-> a,
                               loss |-> [output |-> f.out.val, target |-> w.y.val],
                               fwd_training |-> evald.net.training,
                               fwd_no_grad |-> TRUE]

Evaluate ==
    /\ self.exists
    /\ pc = "idle"
    /\ \E a \in LifeArrays : EvaluateOn(a)
    /\ UNCHANGED <<store, data, locals, pc>>

\* The two files save() writes: the hyperparameters and the state_dict.
SavedFiles(obj) == [exists |-> TRUE, params |-> Hyper(obj), wts |-> obj.net.wts]

Save ==
    /\ self.exists
    /\ pc = "idle"
    /\ disk' = SavedFiles(self)
    /\ saved_self' = self
    /\ result' = [op |-> "save", status |-> "ok"]
    /\ UNCHANGED <<self, loaded, data, locals, pc>>

\* Mutant of LoadStateDict: the saved weights are not loaded.
LoadStateDictSkipped(obj, wts) == obj

\* net.load_state_dict(torch.load(...))
LoadStateDict(obj, wts) == [obj EXCEPT !.net.wts = wts]

\* load(): cls(**model_params) builds a new Forecaster (another random
\* initialisation, a new optimizer), then the saved weights are loaded.
LoadFrom(files) ==
    LoadStateDict(NewForecaster(files.params.encode_len, files.params.decode_len,
                                files.params.feat_dim, files.params.activation, 2),
                  files.wts)

Load ==
    /\ pc = "idle"
    /\ IF disk.exists
       THEN /\ loaded' = LoadFrom(disk)
            /\ result' = [op |-> "load", status |-> "ok"]
       ELSE /\ result' = [op |-> "load", status |-> "FileNotFoundError"]
            /\ UNCHANGED loaded
    /\ UNCHANGED <<self, disk, saved_self, data, locals, pc>>

InitLife ==
    /\ self = NoObject
    /\ InitCommon

NextLife == Construct \/ Fit \/ Epoch \/ Predict \/ Evaluate

SpecLife == InitLife /\ [][NextLife]_vars

-----------------------------------------------------------------------------
(* Specification of persistence: a Forecaster is constructed and trained,  *)
(* and save and load are called at any point between two fit calls.        *)

NextPersist == Construct \/ Fit \/ Epoch \/ Save \/ Load

SpecPersist == InitLife /\ [][NextPersist]_vars

-----------------------------------------------------------------------------
(* Properties of the training loop (SpecTrain) *)

FitReturned == pc = "idle" /\ result.op = "fit" /\ result.status = "returned"

\* C1: _run_training never returns early at an epoch index below 10: a
\* return by early stopping, and any return with fewer than max_epochs
\* records, happens at an epoch index >= min_epochs.
C1_NoEarlyStopBeforeFloor ==
    (FitReturned /\ (result.exit = "early_stop" \/ Len(result.losses) < max_epochs))
        => /\ epoch >= min_epochs
           /\ Len(result.losses) >= min_epochs + 1
           /\ result.losses[Len(result.losses)].epoch >= min_epochs

\* An early stop at epoch index 10, before max_epochs, with patience <= 0.
C1_Witness ==
    /\ FitReturned
    /\ result.exit = "early_stop"
    /\ patience <= 0
    /\ Len(result.losses) = min_epochs + 1
    /\ Len(result.losses) < max_epochs

\* C2: in every epoch, a loss strictly below best sets the counter to 0 and
\* best to the loss; any other loss leaves best and adds exactly 1 to the
\* counter; and the loop stops at the end of an epoch before the last one
\* exactly when, after the update, counter >= patience and epoch >= 10.
C2_EpochUpdateAndStop ==
    [][Len(losses') = Len(losses) + 1 =>
         LET current_loss == losses'[Len(losses')].loss
         IN /\ IF current_loss < best_loss
               THEN trigger_times' = 0 /\ best_loss' = current_loss
               ELSE /\ best_loss' = best_loss
                    /\ trigger_times # Unbound
                    /\ trigger_times' = trigger_times + 1
            /\ (epoch + 1 < max_epochs) =>
                 ((pc' = "idle") <=>
                      (trigger_times' >= patience /\ epoch >= min_epochs))]_vars

\* C3: the history holds one record per executed epoch, record i with epoch
\* index i, the epoch of the early stop included; a return hands back the
\* whole history, and a return without early stop holds max_epochs records.
C3_HistoryComplete ==
    /\ \A i \in 1..Len(losses) : losses[i].epoch = i - 1
    /\ pc = "training" => Len(losses) = epoch
    /\ FitReturned =>
         /\ result.losses = losses
         /\ result.exit = "early_stop" =>
              /\ Len(losses) = epoch + 1
              /\ losses[Len(losses)].epoch = epoch
         /\ result.exit # "early_stop" => Len(losses) = max_epochs

\* An early stop at epoch index 11: twelve records are returned, the record
\* of the stopping epoch among them.
C3_Witness ==
    /\ FitReturned
    /\ result.exit = "early_stop"
    /\ epoch = min_epochs + 1
    /\ Len(result.losses) = min_epochs + 2

\* C10: epoch 0 is always handled as an improvement: once an epoch has run
\* the counter is set, and no epoch reads it while it is unset.
C10_CounterSetInEpoch0 ==
    /\ Len(losses) >= 1 => trigger_times # Unbound
    /\ result.status # "UnboundLocalError"

-----------------------------------------------------------------------------
(* Properties of the windowing function (SpecWin) *)

Extracted(is_train) == result.op = "get_X_and_y" /\ result.is_train = is_train

\* The last k time steps of array a, over all features.
LastSteps(a, k) ==
    [shape |-> <<a.shape[1], k, a.shape[3]>>,
     val   |-> [n \in 1..a.shape[1] |-> [t \in 1..k |-> a.val[n][a.shape[2] - k + t]]]]

\* C5: in inference mode, on an array with the configured feature count,
\* T >= encode_len gives exactly the last encode_len steps and no target
\* (encode_len = T and encode_len = 0 included); T < encode_len fails.
C5_InferLastEncodeLen ==
    (Extracted(FALSE) /\ data.shape[3] = self.feat_dim) =>
        IF data.shape[2] >= self.encode_len
        THEN /\ result.out.status = "ok"
             /\ result.out.X = LastSteps(data, self.encode_len)
             /\ ~result.out.has_y
        ELSE result.out.status = "ValueError"

\* C6: in training mode, a wrong feature count or T # encode_len +
\* decode_len fails; otherwise the history is the first encode_len steps
\* over all features, the target is feature 0 of the remaining decode_len
\* steps, and the input array is as it was.
C6_TrainSplit ==
    Extracted(TRUE) =>
        /\ data = result.input
        /\ IF \/ data.shape[3] # self.feat_dim
              \/ data.shape[2] # self.encode_len + self.decode_len
           THEN result.out.status = "ValueError"
           ELSE /\ result.out.status = "ok"
                /\ result.out.X =
                     [shape |-> <<data.shape[1], self.encode_len, data.shape[3]>>,
                      val   |-> [n \in 1..data.shape[1] |->
                                   [t \in 1..self.encode_len |-> data.val[n][t]]]]
                /\ result.out.has_y
                /\ result.out.y =
                     [shape |-> <<data.shape[1], self.decode_len>>,
                      val   |-> [n \in 1..data.shape[1] |->
                                   [t \in 1..self.decode_len |->
                                      data.val[n][self.encode_len + t][1]]]]

\* A successful training split of two instances with two features.
C6_Witness ==
    /\ Extracted(TRUE)
    /\ result.out.status = "ok"
    /\ data.shape = <<2, 3, 2>>
    /\ self.encode_len = 2
    /\ self.decode_len = 1

-----------------------------------------------------------------------------
(* Properties of the lifecycle (SpecLife) and of persistence (SpecPersist) *)

\* C4: no Forecaster with decode_len > encode_len exists.
C4_NoDecodeLongerThanEncode ==
    self.exists => self.decode_len <= self.encode_len

SamePrediction(p, q) ==
    /\ p.status = q.status
    /\ p.status = "ok" => p.preds = q.preds

\* C7: load after save returns a Forecaster with the hyperparameters and the
\* weights self had when it was saved, whose predict agrees with that of the
\* saved Forecaster on every input; and save leaves self as it was.
C7_SaveLoadRoundTrip ==
    /\ (result.op = "save") =>
          /\ self = saved_self
          /\ disk.exists
    /\ (result.op = "load" /\ result.status = "ok") =>
          /\ loaded.exists
          /\ Hyper(loaded) = Hyper(saved_self)
          /\ loaded.net.wts = saved_self.net.wts
          /\ \A a \in LifeArrays :
               SamePrediction(PredictOf(loaded, a), PredictOf(saved_self, a))

\* A load of weights saved after a fit call, self having been trained
\* further since the save.
C7_Witness ==
    /\ result.op = "load"
    /\ result.status = "ok"
    /\ saved_self.net.wts.steps >= 1
    /\ self.net.wts.steps > saved_self.net.wts.steps

\* C8: every forward pass of predict runs in evaluation mode with gradient
\* tracking disabled.
C8_PredictInEvalModeNoGrad ==
    (result.op = "predict" /\ result.status = "ok") =>
        /\ ~result.fwd_training
        /\ result.fwd_no_grad

\* C9: predict and evaluate, succeeding or failing, leave the weights, the
\* optimizer state and the hyperparameters as they were; and a predict call
\* that directly follows a predict call on the same input returns the same
\* output.
\* (A step that ends with the result of a predict or evaluate call is that
\* call: every other call of the lifecycle replaces the result.)
C9_InferenceLeavesModelState ==
    [][/\ result'.op \in {"predict", "evaluate"} =>
             /\ self'.net.wts = self.net.wts
             /\ self'.optimizer = self.optimizer
             /\ Hyper(self') = Hyper(self)
       /\ (result.op = "predict" /\ result'.op = "predict"
                                 /\ result'.input = result.input)
             => SamePrediction(result', result)]_vars

\* A successful evaluate call on a Forecaster that has been trained.
C9_Witness ==
    /\ result.op = "evaluate"
    /\ result.status = "ok"
    /\ self.net.wts.steps >= 1

====
